---- MODULE Spec2Model ----
(***************************************************************************)
(* Proof core of the binary Merkle trie: single path verification         *)
(* (PathProof::verify, VerifiedPathProof queries) and the batch update   *)
(* verifier (verify_update) of core/src/proof/path_proof.rs.              *)
(*                                                                         *)
(* Nodes are modelled as terms of the free algebra over TERMINATOR,        *)
(* hash_leaf and hash_internal: an ideal (collision free, domain           *)
(* separated) hash oracle.  Key paths are KeyLen bits wide instead of 256. *)
(***************************************************************************)
EXTENDS Integers, Sequences, FiniteSets, TLC

\* Width of a KeyPath in bits (256 in the program, scaled down here).
KeyLen == 2

\* Largest number of leaves of a start trie.
MaxLeaves == 2

\* Largest number of operations of a batch.
MaxOps == 3

\* The depth cap of PathProof::verify: min(key_path.len(), 256). 256 is the
\* width of a KeyPath, so the cap scales with KeyLen.
MAX_DEPTH == KeyLen

ValueHashes == {1, 2}

Min(a, b) == IF a < b THEN a ELSE b

RECURSIVE BitSeqs(_)
BitSeqs(n) == IF n = 0 THEN {<<>>}
              ELSE {Append(s, b) : s \in BitSeqs(n - 1), b \in {0, 1}}

RECURSIVE BitSeqsUpTo(_)
BitSeqsUpTo(n) == IF n = 0 THEN {<<>>} ELSE BitSeqs(n) \cup BitSeqsUpTo(n - 1)

KeyPaths == BitSeqs(KeyLen)

Reverse(s) == [k \in 1..Len(s) |-> s[Len(s) - k + 1]]

\* a[..n] of a bit slice
Take(s, n) == SubSeq(s, 1, n)

\* BitSlice::starts_with
StartsWith(s, p) == Len(p) <= Len(s) /\ Take(s, Len(p)) = p

\* Ord of BitSlice<u8, Msb0> and of [u8; 32]: lexicographic, a proper prefix
\* is less.
BitsLess(a, b) ==
    \/ \E k \in 1..Min(Len(a), Len(b)) :
          /\ Take(a, k - 1) = Take(b, k - 1)
          /\ a[k] < b[k]
    \/ Len(a) < Len(b) /\ Take(b, Len(a)) = a

BitsGeq(a, b) == ~BitsLess(a, b)

(***************************************************************************)
(* Hash oracle and entity types.                                           *)
(***************************************************************************)
TERMINATOR == <<"T">>

LeafData(k, v) == [key_path |-> k, value_hash |-> v]

hash_leaf(leaf) == <<"L", leaf.key_path, leaf.value_hash>>

hash_internal(left, right) == <<"I", left, right>>

NodeKindOf(node) ==
    CASE node[1] = "T" -> "Terminator"
      [] node[1] = "L" -> "Leaf"
      [] node[1] = "I" -> "Internal"

None == <<>>
Some(x) == <<x>>
IsSome(o) == Len(o) = 1

Ok(v) == <<"Ok", v>>
Err(e) == <<"Err", e>>
IsOk(r) == r[1] = "Ok"
NotCalled == <<"NotCalled">>

TerminalLeaf(leaf) == <<"Leaf", leaf>>
TerminalTerminator(pos) == <<"Terminator", pos>>

\* PathProofTerminal::node
TerminalNode(terminal) ==
    IF terminal[1] = "Leaf" THEN hash_leaf(terminal[2]) ELSE TERMINATOR

\* PathProofTerminal::as_leaf_option, and the match in PathProof::verify
AsLeafOption(terminal) ==
    IF terminal[1] = "Leaf" THEN Some(terminal[2]) ELSE None

(***************************************************************************)
(* hash_path: the loop zips the bits of path, last first, with siblings.   *)
(***************************************************************************)
RECURSIVE hash_path_from(_, _, _, _)
hash_path_from(node, path, siblings, k) ==
    IF k > Min(Len(path), Len(siblings)) THEN node
    ELSE LET bit == path[Len(path) - k + 1]
             sibling == siblings[k]
             left == IF bit = 1 THEN sibling ELSE node
             right == IF bit = 1 THEN node ELSE sibling
         IN hash_path_from(hash_internal(left, right), path, siblings, k + 1)

\* Mutant: the siblings are consumed in the order given first, not reversed.
hash_path_unreversed(node, path, siblings) ==
    hash_path_from(node, path, Reverse(siblings), 1)

\* Mutant: the sibling is put on the left where the bit is 0.
hash_path_flipped(node, path, siblings) ==
    hash_path_from(node, [j \in 1..Len(path) |-> 1 - path[j]], siblings, 1)

hash_path(node, path, siblings) == hash_path_from(node, path, siblings, 1)

(***************************************************************************)
(* PathProof::verify                                                       *)
(***************************************************************************)
\* Mutant: the sibling count is bounded by the key path alone.
TooManySiblingsCheckNoCap(proof, key) ==
    Len(proof.siblings) > Len(key)

TooManySiblingsCheck(proof, key) ==
    Len(proof.siblings) > Min(Len(key), MAX_DEPTH)

PathProofVerify(proof, key, expected_root) ==
    IF TooManySiblingsCheck(proof, key)
    THEN Err("TooManySiblings")
    ELSE LET relevant_path == Take(key, Len(proof.siblings))
             cur_node == TerminalNode(proof.terminal)
             new_root == hash_path(cur_node, relevant_path, Reverse(proof.siblings))
         IN IF new_root = expected_root
            THEN Ok([key_path |-> relevant_path,
                     terminal |-> AsLeafOption(proof.terminal),
                     siblings |-> proof.siblings,
                     root |-> expected_root])
            ELSE Err("RootMismatch")

\* Number of oracle calls PathProof::verify makes: none before the sibling
\* count check, then hash_leaf for a leaf terminal and one hash_internal per
\* sibling.
PathProofVerifyHashes(proof, key) ==
    IF TooManySiblingsCheck(proof, key) THEN 0
    ELSE (IF proof.terminal[1] = "Leaf" THEN 1 ELSE 0) + Len(proof.siblings)

(***************************************************************************)
(* VerifiedPathProof queries                                               *)
(***************************************************************************)
\* Mutant: the last bit of the proven path is left out of the comparison.
in_scope_short(vp, key) ==
    LET n == IF Len(vp.key_path) = 0 THEN 0 ELSE Len(vp.key_path) - 1
    IN IF Take(vp.key_path, n) = Take(key, n) THEN Ok(<<>>) ELSE Err("KeyOutOfScope")

in_scope(vp, key) ==
    LET this_path == vp.key_path
        other_path == Take(key, Len(vp.key_path))
    IN IF this_path = other_path THEN Ok(<<>>) ELSE Err("KeyOutOfScope")

\* Mutant: only the key of the terminal is compared.
confirm_value_key_only(vp, expected_leaf) ==
    IF vp.key_path = Take(expected_leaf.key_path, Len(vp.key_path))
    THEN Ok(IsSome(vp.terminal) /\ vp.terminal[1].key_path = expected_leaf.key_path)
    ELSE Err("KeyOutOfScope")

confirm_value(vp, expected_leaf) ==
    IF IsOk(in_scope(vp, expected_leaf.key_path))
    THEN Ok(vp.terminal = Some(expected_leaf))
    ELSE Err("KeyOutOfScope")

\* Mutant: a terminator answers false (map_or with the wrong default).
confirm_nonexistence_default_false(vp, key) ==
    IF IsOk(in_scope(vp, key))
    THEN Ok(IF IsSome(vp.terminal) THEN vp.terminal[1].key_path # key ELSE FALSE)
    ELSE Err("KeyOutOfScope")

confirm_nonexistence(vp, key) ==
    IF IsOk(in_scope(vp, key))
    THEN Ok(IF IsSome(vp.terminal) THEN vp.terminal[1].key_path # key ELSE TRUE)
    ELSE Err("KeyOutOfScope")

(***************************************************************************)
(* The trie and its honest prover (the collaborators of the proof core).   *)
(* A trie is a set of LeafData with distinct keys.                         *)
(***************************************************************************)
Under(leaves, prefix) == {l \in leaves : StartsWith(l.key_path, prefix)}

\* Root of the sub-trie of the leaves below prefix: the terminator when
\* empty, the bare leaf when a singleton (singleton collapse), otherwise an
\* internal node over the two halves.
RECURSIVE SubTrie(_, _)
SubTrie(leaves, prefix) ==
    LET below == Under(leaves, prefix)
    IN IF below = {} THEN TERMINATOR
       ELSE IF Cardinality(below) = 1
            THEN hash_leaf(CHOOSE l \in below : TRUE)
            ELSE hash_internal(SubTrie(below, Append(prefix, 0)),
                               SubTrie(below, Append(prefix, 1)))

TrieRoot(leaves) == SubTrie(leaves, <<>>)

\* Depth of the terminal node met when looking up key.
LookupDepth(leaves, key) ==
    CHOOSE d \in 0..KeyLen :
        /\ Cardinality(Under(leaves, Take(key, d))) <= 1
        /\ \A e \in 0..(d - 1) : Cardinality(Under(leaves, Take(key, e))) > 1

LookupPrefix(leaves, key) == Take(key, LookupDepth(leaves, key))

\* The path proof an honest prover produces for the lookup of key.
HonestProof(leaves, key) ==
    LET d == LookupDepth(leaves, key)
        at == Under(leaves, Take(key, d))
    IN [terminal |-> IF at = {} THEN TerminalTerminator(Take(key, d))
                     ELSE TerminalLeaf(CHOOSE l \in at : TRUE),
        siblings |-> [j \in 1..d |->
                        SubTrie(leaves, Append(Take(key, j - 1), 1 - key[j]))]]

\* build_trie: the sub-trie builder, from depth skip, over ascending
\* (key, value) pairs that share their first skip bits.
build_trie(skip, ops) ==
    IF Len(ops) = 0 THEN TERMINATOR
    ELSE SubTrie({LeafData(ops[j][1], ops[j][2]) : j \in 1..Len(ops)},
                 Take(ops[1][1], skip))

\* leaf_ops_spliced: the prior leaf is spliced into the ops at its place
\* unless an op names its key; deletions are then dropped.
leaf_ops_spliced(leaf, ops) ==
    LET keep == IsSome(leaf) /\ \A j \in 1..Len(ops) : ops[j][1] # leaf[1].key_path
        splice_index == IF keep
                        THEN Cardinality({j \in 1..Len(ops) :
                                            BitsLess(ops[j][1], leaf[1].key_path)})
                        ELSE 0
        spliced == IF keep
                   THEN SubSeq(ops, 1, splice_index)
                          \o <<<<leaf[1].key_path, Some(leaf[1].value_hash)>>>>
                          \o SubSeq(ops, splice_index + 1, Len(ops))
                   ELSE ops
        present == SelectSeq(spliced, LAMBDA op : IsSome(op[2]))
    IN [j \in 1..Len(present) |-> <<present[j][1], present[j][2][1]>>]

\* shared_bits
shared_bits(a, b) ==
    CHOOSE n \in 0..Min(Len(a), Len(b)) :
        /\ Take(a, n) = Take(b, n)
        /\ n < Min(Len(a), Len(b)) => a[n + 1] # b[n + 1]

(***************************************************************************)
(* verify_update                                                           *)
(***************************************************************************)
\* Mutant: the scope of an operation is not checked.
RECURSIVE OpsErrorNoScope(_, _)
OpsErrorNoScope(path, j) ==
    IF j > Len(path.ops) THEN "none"
    ELSE IF j # 1 /\ BitsGeq(path.ops[j - 1][1], path.ops[j][1])
         THEN "OpsOutOfOrder"
         ELSE OpsErrorNoScope(path, j + 1)

\* The checks the first loop makes on path i, in the order it makes them.
RECURSIVE OpsError(_, _)
OpsError(path, j) ==
    IF j > Len(path.ops) THEN "none"
    ELSE IF j # 1 /\ BitsGeq(path.ops[j - 1][1], path.ops[j][1])
         THEN "OpsOutOfOrder"
         ELSE IF ~StartsWith(path.ops[j][1], path.inner.key_path)
              THEN "OpOutOfScope"
              ELSE OpsError(path, j + 1)

\* Mutant: the root of a path is not compared with prev_root.
PathErrorNoRoot(prev_root, paths, i) ==
    IF i # 1 /\ BitsGeq(paths[i - 1].inner.key_path, paths[i].inner.key_path)
    THEN "PathsOutOfOrder"
    ELSE IF Len(paths[i].ops) = 0 THEN "PathWithoutOps"
         ELSE OpsError(paths[i], 1)

\* Mutant: equal proven paths are let through (> in place of >=).
PathErrorStrict(prev_root, paths, i) ==
    IF paths[i].inner.root # prev_root THEN "RootMismatch"
    ELSE IF i # 1 /\ BitsLess(paths[i].inner.key_path, paths[i - 1].inner.key_path)
         THEN "PathsOutOfOrder"
         ELSE IF Len(paths[i].ops) = 0 THEN "PathWithoutOps"
              ELSE OpsError(paths[i], 1)

\* Mutant: a path without operations is let through.
PathErrorNoEmpty(prev_root, paths, i) ==
    IF paths[i].inner.root # prev_root THEN "RootMismatch"
    ELSE IF i # 1 /\ BitsGeq(paths[i - 1].inner.key_path, paths[i].inner.key_path)
         THEN "PathsOutOfOrder"
         ELSE OpsError(paths[i], 1)

\* Mutant: the order of the proven paths is not checked.
PathErrorNoOrder(prev_root, paths, i) ==
    IF paths[i].inner.root # prev_root THEN "RootMismatch"
    ELSE IF Len(paths[i].ops) = 0 THEN "PathWithoutOps"
         ELSE OpsError(paths[i], 1)

PathError(prev_root, paths, i) ==
    IF paths[i].inner.root # prev_root THEN "RootMismatch"
    ELSE IF i # 1 /\ BitsGeq(paths[i - 1].inner.key_path, paths[i].inner.key_path)
         THEN "PathsOutOfOrder"
         ELSE IF Len(paths[i].ops) = 0 THEN "PathWithoutOps"
              ELSE OpsError(paths[i], 1)

RECURSIVE FirstError(_, _, _)
FirstError(prev_root, paths, i) ==
    IF i > Len(paths) THEN "none"
    ELSE LET e == PathError(prev_root, paths, i)
         IN IF e # "none" THEN e ELSE FirstError(prev_root, paths, i + 1)

\* Mutant: every path is walked up to the root.
UpLayersToRoot(paths, i) == Len(paths[i].inner.key_path)

\* up_layers of path i (an integer: negative where the usize subtraction
\* would underflow).
UpLayers(paths, i) ==
    LET skip == Len(paths[i].inner.key_path)
    IN IF i = Len(paths) THEN skip
       ELSE skip - (shared_bits(paths[i + 1].inner.key_path,
                                paths[i].inner.key_path) + 1)

SubRoot(path) ==
    build_trie(Len(path.inner.key_path),
               leaf_ops_spliced(path.inner.terminal, path.ops))

\* Mutant: the frontier is never consulted, the sibling of the proof is used.
PendingHitNever(pending, layer) == FALSE

\* Mutant: the top of the frontier is matched one layer too high.
PendingHitAbove(pending, layer) ==
    Len(pending) > 0 /\ pending[Len(pending)][2] = layer + 1

\* The sibling the walk uses at cur_layer: the pending one if the top of the
\* frontier sits at this layer, else the one of the proof.
PendingHit(pending, layer) ==
    Len(pending) > 0 /\ pending[Len(pending)][2] = layer

\* Mutant: no compaction, every pair is hashed into an internal node.
CombineNoCompaction(cur, sibling, bit) ==
    IF bit = 1 THEN hash_internal(sibling, cur) ELSE hash_internal(cur, sibling)

\* One step of compaction.
Combine(cur, sibling, bit) ==
    LET kc == NodeKindOf(cur)
        ks == NodeKindOf(sibling)
    IN CASE kc = "Terminator" /\ ks = "Terminator" -> cur
         [] kc = "Leaf" /\ ks = "Terminator" -> cur
         [] kc = "Terminator" /\ ks = "Leaf" -> sibling
         [] OTHER -> IF bit = 1 THEN hash_internal(sibling, cur)
                                ELSE hash_internal(cur, sibling)

(***************************************************************************)
(* State                                                                   *)
(***************************************************************************)
VARIABLES
    proof,        \* the PathProof given to verify
    key_path,     \* the key_path bit slice given to verify
    root,         \* the expected root given to verify
    verified,     \* verify's result: NotCalled, Ok(VerifiedPathProof) or Err
    hash_calls,   \* oracle calls made by verify
    query,        \* the last confirm_* call made on the verified path
    answer,       \* its result
    start_trie,   \* the trie the batch was witnessed against
    operations,   \* the operations of the batch: key -> Option<ValueHash>
    tampered,     \* what the caller changed in the honest batch
    prev_root,    \* verify_update's prev_root
    paths,        \* verify_update's paths
    pc,           \* position in verify_update
    i,            \* index of the path being stitched (from 1)
    pending_siblings, \* the left frontier: a stack of <<node, layer>>
    cur_node,
    cur_layer,
    walk_left,    \* iterations the inner loop still makes
    end_layer,
    result,       \* verify_update's result
    self_sync_seqn,  \* Sync.sync_seqn, a u32 held as <<high, low>> halves
    panic_on_sync,   \* Sync.panic_on_sync: None or Some(PanicOnSyncMode)
    overflow_checks, \* whether the build panics on integer overflow
    sync_pc,         \* position in Sync::sync
    sync_seqn,       \* the local sync_seqn of the running call
    rollback_sync,   \* the local rollback_sync: None or Some
    entry_sync_seqn, \* Sync.sync_seqn when the running call was entered
    performed,       \* the steps the running call has made: <<step, outcome>>
    meta_writes,     \* the sync_seqn of every Meta written so far
    sync_calls,      \* number of calls of Sync::sync so far
    sync_result      \* what the last call of Sync::sync came to

pathVars == <<proof, key_path, root, verified, hash_calls, query, answer>>
inputVars == <<start_trie, operations, tampered, prev_root, paths>>
walkVars == <<i, pending_siblings, cur_node, cur_layer, walk_left, end_layer>>
updateVars == <<inputVars, pc, walkVars, result>>
syncVars == <<self_sync_seqn, panic_on_sync, overflow_checks, sync_pc, sync_seqn,
              rollback_sync, entry_sync_seqn, performed, meta_writes,
              sync_calls, sync_result>>
vars == <<pathVars, updateVars, syncVars>>

\* No Sync is in use.
SyncIdle ==
    /\ self_sync_seqn = <<0, 0>> /\ panic_on_sync = None
    /\ overflow_checks = TRUE /\ sync_pc = "idle" /\ sync_seqn = <<0, 0>>
    /\ rollback_sync = None /\ entry_sync_seqn = <<0, 0>>
    /\ performed = <<>> /\ meta_writes = <<>> /\ sync_calls = 0
    /\ sync_result = NotCalled

(***************************************************************************)
(* Inputs of the single path verifier.                                     *)
(***************************************************************************)
AllLeaves == {LeafData(k, v) : k \in KeyPaths, v \in ValueHashes}

\* Proof terminals: leaves with the first value hash, or a terminator.
ProofTerminals ==
    {TerminalLeaf(LeafData(k, 1)) : k \in KeyPaths}
        \cup {TerminalTerminator(<<>>)}

\* Sibling digests a caller may supply.
SiblingNodes == {TERMINATOR, hash_leaf(LeafData([j \in 1..KeyLen |-> 1], 1))}

RECURSIVE SeqsUpTo(_, _)
SeqsUpTo(S, n) ==
    IF n = 0 THEN {<<>>}
    ELSE LET shorter == SeqsUpTo(S, n - 1)
         IN shorter \cup {Append(s, x) : s \in {t \in shorter : Len(t) = n - 1}, x \in S}

PathProofs ==
    {[terminal |-> t, siblings |-> s] :
        t \in ProofTerminals, s \in SeqsUpTo(SiblingNodes, KeyLen + 1)}

\* The root of the path that leads to node along bits, with the siblings
\* given top-down: the sibling is the left child where the bit is 1.
RECURSIVE PathRoot(_, _, _)
PathRoot(node, bits, siblings) ==
    IF siblings = <<>> THEN node
    ELSE LET below == PathRoot(node, Tail(bits), Tail(siblings))
         IN IF Head(bits) = 1 THEN <<"I", Head(siblings), below>>
                              ELSE <<"I", below, Head(siblings)>>

\* Expected roots: the root of the proof's path along any bit path of its
\* length, or the terminator.
ExpectedRoots(p) ==
    {PathRoot(TerminalNode(p.terminal), bits, p.siblings) :
        bits \in BitSeqs(Len(p.siblings))} \cup {TERMINATOR}

PathInit ==
    /\ proof \in PathProofs
    /\ key_path \in BitSeqsUpTo(KeyLen + 1)
    /\ root \in ExpectedRoots(proof)
    /\ verified = NotCalled
    /\ hash_calls = 0
    /\ query = <<"none">>
    /\ answer = NotCalled
    /\ start_trie = {} /\ operations = <<>> /\ tampered = {}
    /\ prev_root = TERMINATOR /\ paths = <<>>
    /\ pc = "idle" /\ result = NotCalled
    /\ i = 0 /\ pending_siblings = <<>> /\ cur_node = TERMINATOR
    /\ cur_layer = 0 /\ walk_left = 0 /\ end_layer = 0
    /\ SyncIdle

Verify ==
    /\ verified = NotCalled
    /\ verified' = PathProofVerify(proof, key_path, root)
    /\ hash_calls' = PathProofVerifyHashes(proof, key_path)
    /\ UNCHANGED <<proof, key_path, root, query, answer, updateVars, syncVars>>

ConfirmValue ==
    /\ IsOk(verified)
    /\ \E leaf \in AllLeaves :
          /\ query' = <<"confirm_value", leaf>>
          /\ answer' = confirm_value(verified[2], leaf)
    /\ UNCHANGED <<proof, key_path, root, verified, hash_calls, updateVars, syncVars>>

ConfirmNonexistence ==
    /\ IsOk(verified)
    /\ \E key \in KeyPaths :
          /\ query' = <<"confirm_nonexistence", key>>
          /\ answer' = confirm_nonexistence(verified[2], key)
    /\ UNCHANGED <<proof, key_path, root, verified, hash_calls, updateVars, syncVars>>

PathNext == Verify \/ ConfirmValue \/ ConfirmNonexistence

PathSpec == PathInit /\ [][PathNext]_vars

(***************************************************************************)
(* Inputs of the batch update verifier.                                    *)
(***************************************************************************)
\* Start tries: leaves carry the first value hash.
Tries ==
    {{LeafData(k, 1) : k \in K} :
        K \in {X \in SUBSET KeyPaths : Cardinality(X) <= MaxLeaves}}

\* Operation sets: deletions and writes of the second value hash.
OperationSets ==
    UNION {[K -> {None, Some(2)}] :
        K \in {X \in SUBSET KeyPaths : Cardinality(X) <= MaxOps}}

\* The trie after the operations were applied to it directly.
Apply(leaves, ops) ==
    {l \in leaves : l.key_path \notin DOMAIN ops}
        \cup {LeafData(k, ops[k][1]) : k \in {x \in DOMAIN ops : IsSome(ops[x])}}

\* The bit strings of S in ascending order.
RECURSIVE Ascending(_)
Ascending(S) ==
    IF S = {} THEN <<>>
    ELSE LET least == CHOOSE x \in S : \A y \in S \ {x} : BitsLess(x, y)
         IN <<least>> \o Ascending(S \ {least})

\* The batch of an honest caller: every lookup path is verified against the
\* root of the trie, the operations are partitioned by lookup path, paths
\* and operations ascending.
HonestPaths(leaves, ops) ==
    LET prefixes == Ascending({LookupPrefix(leaves, k) : k \in DOMAIN ops})
        keysOf(p) == Ascending({k \in DOMAIN ops : LookupPrefix(leaves, k) = p})
        pathOf(p) ==
            LET keys == keysOf(p)
                checked == PathProofVerify(HonestProof(leaves, keys[1]), keys[1],
                                           TrieRoot(leaves))
            IN [inner |-> checked[2],
                ops |-> [j \in 1..Len(keys) |-> <<keys[j], ops[keys[j]]>>]]
    IN [n \in 1..Len(prefixes) |-> pathOf(prefixes[n])]

Init ==
    /\ start_trie \in Tries
    /\ operations \in OperationSets
    /\ tampered = {}
    /\ prev_root = TERMINATOR
    /\ paths = <<>>
    /\ pc = "witness"
    /\ result = NotCalled
    /\ i = 0 /\ pending_siblings = <<>> /\ cur_node = TERMINATOR
    /\ cur_layer = 0 /\ walk_left = 0 /\ end_layer = 0
    /\ proof = <<>> /\ key_path = <<>> /\ root = TERMINATOR
    /\ verified = NotCalled /\ hash_calls = 0
    /\ query = <<"none">> /\ answer = NotCalled
    /\ SyncIdle

\* The caller verifies the lookup paths of its operations against the root
\* of the start trie and assembles the batch.
Witness ==
    /\ pc = "witness"
    /\ prev_root' = TrieRoot(start_trie)
    /\ paths' = HonestPaths(start_trie, operations)
    /\ pc' = "start"
    /\ UNCHANGED <<start_trie, operations, tampered, walkVars, result, pathVars, syncVars>>

(***************************************************************************)
(* verify_update, step by step.                                            *)
(***************************************************************************)
\* Mutant: an empty batch yields the root of the empty trie.
VerifyUpdateChecksEmptyTrie(root0, batch) ==
    IF Len(batch) = 0 THEN Ok(TERMINATOR)
    ELSE LET e == FirstError(root0, batch, 1)
         IN IF e # "none" THEN Err(e) ELSE NotCalled

\* The empty check and the loop that verifies the properties of the paths:
\* the value returned there, or NotCalled where verify_update goes on.
VerifyUpdateChecks(root0, batch) ==
    IF Len(batch) = 0 THEN Ok(root0)
    ELSE LET e == FirstError(root0, batch, 1)
         IN IF e # "none" THEN Err(e) ELSE NotCalled

CheckPaths ==
    /\ pc = "start"
    /\ result' = VerifyUpdateChecks(prev_root, paths)
    /\ pc' = IF result' = NotCalled THEN "path" ELSE "done"
    /\ i' = 1
    /\ UNCHANGED <<inputVars, pending_siblings, cur_node, cur_layer, walk_left,
                   end_layer, pathVars, syncVars>>

\* The head of the second loop's body for path i: up_layers, the sub-trie
\* of the path, and the start of the walk. Where skip - (n + 1) underflows
\* the build either panics or wraps.
BeginPath ==
    /\ pc = "path"
    /\ LET skip == Len(paths[i].inner.key_path)
           up_layers == UpLayers(paths, i)
       IN IF up_layers >= 0
          THEN /\ cur_node' = SubRoot(paths[i])
               /\ cur_layer' = skip
               /\ end_layer' = skip - up_layers
               /\ walk_left' = Min(up_layers, Min(skip, Len(paths[i].inner.siblings)))
               /\ pc' = "walk"
               /\ result' = result
          ELSE \/ /\ pc' = "done"
                  /\ result' = <<"Panic", "attempt to subtract with overflow">>
                  /\ UNCHANGED <<cur_node, cur_layer, end_layer, walk_left>>
               \/ /\ cur_node' = SubRoot(paths[i])
                  /\ cur_layer' = skip
                  /\ end_layer' = skip + 1
                  /\ walk_left' = Min(skip, Len(paths[i].inner.siblings))
                  /\ pc' = "walk"
                  /\ result' = result
    /\ UNCHANGED <<inputVars, i, pending_siblings, pathVars, syncVars>>

\* One iteration of the walk towards the root.
WalkStep ==
    /\ pc = "walk"
    /\ walk_left > 0
    /\ LET path == paths[i].inner
           bit == path.key_path[cur_layer]
           hit == PendingHit(pending_siblings, cur_layer)
           sibling == IF hit THEN pending_siblings[Len(pending_siblings)][1]
                      ELSE path.siblings[cur_layer]
       IN /\ pending_siblings' =
                 IF hit THEN SubSeq(pending_siblings, 1, Len(pending_siblings) - 1)
                 ELSE pending_siblings
          /\ cur_node' = Combine(cur_node, sibling, bit)
    /\ cur_layer' = cur_layer - 1
    /\ walk_left' = walk_left - 1
    /\ UNCHANGED <<inputVars, pc, i, end_layer, result, pathVars, syncVars>>

\* The end of the second loop's body: the node is pushed on the frontier.
EndPath ==
    /\ pc = "walk"
    /\ walk_left = 0
    /\ pending_siblings' = Append(pending_siblings, <<cur_node, end_layer>>)
    /\ IF i = Len(paths)
       THEN pc' = "return" /\ i' = i
       ELSE pc' = "path" /\ i' = i + 1
    /\ UNCHANGED <<inputVars, cur_node, cur_layer, walk_left, end_layer, result,
                   pathVars, syncVars>>

\* Ok(pending_siblings.pop().map(|n| n.0).unwrap())
Return ==
    /\ pc = "return"
    /\ result' = Ok(pending_siblings[Len(pending_siblings)][1])
    /\ pending_siblings' = SubSeq(pending_siblings, 1, Len(pending_siblings) - 1)
    /\ pc' = "done"
    /\ UNCHANGED <<inputVars, i, cur_node, cur_layer, walk_left, end_layer,
                   pathVars, syncVars>>

Next == Witness \/ CheckPaths \/ BeginPath \/ WalkStep \/ EndPath \/ Return

Spec == Init /\ [][Next]_vars

(***************************************************************************)
(* A caller that does not keep the contract: before the call it changes    *)
(* up to two things in the batch.                                          *)
(***************************************************************************)
\* Operations on the keys of the trie and on its first absent key.
TamperOperationSets(leaves) ==
    LET present == {l.key_path : l \in leaves}
        absent == Ascending(KeyPaths \ present)[1]
        candidates == present \cup {absent}
    IN UNION {[K -> {None, Some(2)}] :
                K \in {X \in SUBSET candidates : Cardinality(X) <= MaxOps}}

TamperInit ==
    /\ start_trie \in Tries
    /\ operations \in TamperOperationSets(start_trie)
    /\ tampered = {}
    /\ prev_root = TERMINATOR
    /\ paths = <<>>
    /\ pc = "witness"
    /\ result = NotCalled
    /\ i = 0 /\ pending_siblings = <<>> /\ cur_node = TERMINATOR
    /\ cur_layer = 0 /\ walk_left = 0 /\ end_layer = 0
    /\ proof = <<>> /\ key_path = <<>> /\ root = TERMINATOR
    /\ verified = NotCalled /\ hash_calls = 0
    /\ query = <<"none">> /\ answer = NotCalled
    /\ SyncIdle

CanTamper(kind, j) ==
    /\ pc = "start"
    /\ Cardinality(tampered) < 2
    /\ <<kind, j>> \notin tampered
    /\ j \in DOMAIN paths

Tampered(kind, j, batch) ==
    /\ paths' = batch
    /\ tampered' = tampered \cup {<<kind, j>>}
    /\ UNCHANGED <<start_trie, operations, prev_root, pc, walkVars, result, pathVars, syncVars>>

\* Path j is replaced by the lookup path of its first key verified against
\* the root of the trie after the operations.
Reroot ==
    \E j \in DOMAIN paths :
        /\ CanTamper("reroot", j)
        /\ Len(paths[j].ops) > 0
        /\ LET after == Apply(start_trie, operations)
               key == paths[j].ops[1][1]
               checked == PathProofVerify(HonestProof(after, key), key, TrieRoot(after))
           IN /\ TrieRoot(after) # prev_root
              /\ Tampered("reroot", j, [paths EXCEPT ![j].inner = checked[2]])

\* Path j loses its operations.
ClearOps ==
    \E j \in DOMAIN paths :
        /\ CanTamper("clear", j)
        /\ Len(paths[j].ops) > 0
        /\ Tampered("clear", j, [paths EXCEPT ![j].ops = <<>>])

\* The operations of path j are given in descending order.
ReverseOps ==
    \E j \in DOMAIN paths :
        /\ CanTamper("reverse", j)
        /\ Len(paths[j].ops) > 1
        /\ Tampered("reverse", j, [paths EXCEPT ![j].ops = Reverse(@)])

\* The last operation of path j is given twice.
DupOp ==
    \E j \in DOMAIN paths :
        /\ CanTamper("dupop", j)
        /\ Len(paths[j].ops) > 0
        /\ Tampered("dupop", j, [paths EXCEPT ![j].ops = Append(@, @[Len(@)])])

\* The last operation of path j is moved to the key with the other first
\* bit, outside the proven prefix.
Rescope ==
    \E j \in DOMAIN paths :
        /\ CanTamper("rescope", j)
        /\ Len(paths[j].ops) > 0
        /\ Len(paths[j].inner.key_path) > 0
        /\ LET n == Len(paths[j].ops)
               key == paths[j].ops[n][1]
               other == [key EXCEPT ![1] = 1 - @]
           IN Tampered("rescope", j, [paths EXCEPT ![j].ops[n][1] = other])

\* Paths j and j + 1 change places.
SwapPaths ==
    \E j \in DOMAIN paths :
        /\ CanTamper("swap", j)
        /\ j < Len(paths)
        /\ Tampered("swap", j,
                    [paths EXCEPT ![j] = paths[j + 1], ![j + 1] = paths[j]])

\* Path j is given twice.
DupPath ==
    \E j \in DOMAIN paths :
        /\ CanTamper("duppath", j)
        /\ Tampered("duppath", j,
                    SubSeq(paths, 1, j) \o SubSeq(paths, j, Len(paths)))

TamperNext ==
    \/ Reroot \/ ClearOps \/ ReverseOps \/ DupOp \/ Rescope \/ SwapPaths \/ DupPath
    \/ Next

TamperSpec == TamperInit /\ [][TamperNext]_vars

(***************************************************************************)
(* Sync::sync (store/sync.rs), step by step. The collaborators (bitbox,    *)
(* beatree, rollback, Meta::write) are calls whose outcome is Ok or Err    *)
(* where the code handles a Result.                                        *)
(***************************************************************************)
\* Calls of Sync::sync on one Sync.
MaxSyncs == 2

\* A u32 is held as two halves of 16 bits.
Half == 65536

U32_MAX == <<Half - 1, Half - 1>>

\* x + 1 in u32, wrapped.
WrappingAddOne(x) ==
    IF x[2] + 1 < Half THEN <<x[1], x[2] + 1>>
    ELSE <<(x[1] + 1) % Half, 0>>

PanicOnSyncModes == {"PostWal", "PostMeta"}

Outcomes == {"Ok", "Err"}

syncCallVars == <<pathVars, updateVars, panic_on_sync, overflow_checks>>

SyncInit ==
    /\ self_sync_seqn \in {<<0, 0>>, <<0, Half - 1>>, <<Half - 1, Half - 2>>, U32_MAX}
    /\ panic_on_sync \in {None} \cup {Some(m) : m \in PanicOnSyncModes}
    /\ overflow_checks \in BOOLEAN
    /\ sync_pc = "idle"
    /\ sync_seqn = <<0, 0>>
    /\ rollback_sync = None
    /\ entry_sync_seqn = self_sync_seqn
    /\ performed = <<>>
    /\ meta_writes = <<>>
    /\ sync_calls = 0
    /\ sync_result = NotCalled
    /\ proof = <<>> /\ key_path = <<>> /\ root = TERMINATOR
    /\ verified = NotCalled /\ hash_calls = 0
    /\ query = <<"none">> /\ answer = NotCalled
    /\ start_trie = {} /\ operations = <<>> /\ tampered = {}
    /\ prev_root = TERMINATOR /\ paths = <<>>
    /\ pc = "idle" /\ result = NotCalled
    /\ i = 0 /\ pending_siblings = <<>> /\ cur_node = TERMINATOR
    /\ cur_layer = 0 /\ walk_left = 0 /\ end_layer = 0

\* The step was made and came to the outcome.
Performed(step, outcome) == performed' = Append(performed, <<step, outcome>>)

\* A `?` on an Err: sync returns the error.
ReturnErr(step) ==
    /\ sync_result' = Err(step)
    /\ sync_pc' = "returned"

\* Entry of sync: the local sync_seqn = self.sync_seqn + 1, the sync
\* controllers, and the three begin_sync calls.
SyncBegin ==
    /\ sync_pc \in {"idle", "returned"}
    /\ sync_calls < MaxSyncs
    /\ sync_calls' = sync_calls + 1
    /\ entry_sync_seqn' = self_sync_seqn
    /\ IF self_sync_seqn = U32_MAX /\ overflow_checks
       THEN /\ sync_pc' = "panicked"
            /\ sync_result' = <<"Panic", "attempt to add with overflow">>
            /\ performed' = <<>>
            /\ UNCHANGED <<sync_seqn, rollback_sync>>
       ELSE /\ sync_seqn' = WrappingAddOne(self_sync_seqn)
            /\ \E rollback \in {None, Some("rollback")} :
                  /\ rollback_sync' = rollback
                  /\ performed' =
                        <<<<"bitbox.begin_sync", "Ok">>, <<"beatree.begin_sync", "Ok">>>>
                          \o (IF IsSome(rollback)
                              THEN <<<<"rollback.begin_sync", "Ok">>>> ELSE <<>>)
            /\ sync_result' = NotCalled
            /\ sync_pc' = "bitbox_wait_pre_meta"
    /\ UNCHANGED <<self_sync_seqn, meta_writes, syncCallVars>>

\* bitbox_sync.wait_pre_meta()?
BitboxWaitPreMeta ==
    /\ sync_pc = "bitbox_wait_pre_meta"
    /\ \E outcome \in Outcomes :
          /\ Performed("bitbox.wait_pre_meta", outcome)
          /\ IF outcome = "Ok"
             THEN sync_pc' = "beatree_wait_pre_meta" /\ sync_result' = sync_result
             ELSE ReturnErr("bitbox.wait_pre_meta")
    /\ UNCHANGED <<self_sync_seqn, sync_seqn, rollback_sync, entry_sync_seqn,
                   meta_writes, sync_calls, syncCallVars>>

\* beatree_sync.wait_pre_meta()?
BeatreeWaitPreMeta ==
    /\ sync_pc = "beatree_wait_pre_meta"
    /\ \E outcome \in Outcomes :
          /\ Performed("beatree.wait_pre_meta", outcome)
          /\ IF outcome = "Ok"
             THEN sync_pc' = "post_wal" /\ sync_result' = sync_result
             ELSE ReturnErr("beatree.wait_pre_meta")
    /\ UNCHANGED <<self_sync_seqn, sync_seqn, rollback_sync, entry_sync_seqn,
                   meta_writes, sync_calls, syncCallVars>>

\* The panic of PanicOnSyncMode::PostWal.
PostWal ==
    /\ sync_pc = "post_wal"
    /\ IF panic_on_sync = Some("PostWal")
       THEN /\ sync_pc' = "panicked"
            /\ sync_result' = <<"Panic", "panic_on_sync is true (post-wal)">>
       ELSE /\ sync_pc' = "meta_write"
            /\ sync_result' = sync_result
    /\ UNCHANGED <<self_sync_seqn, sync_seqn, rollback_sync, entry_sync_seqn,
                   performed, meta_writes, sync_calls, syncCallVars>>

\* Mutant: self.sync_seqn is incremented before the Meta is written.
MetaWriteAfterIncrement ==
    /\ sync_pc = "meta_write"
    /\ self_sync_seqn' = WrappingAddOne(self_sync_seqn)
    /\ \E outcome \in Outcomes :
          /\ Performed("Meta::write", outcome)
          /\ IF outcome = "Ok"
             THEN /\ meta_writes' = Append(meta_writes, sync_seqn)
                  /\ sync_pc' = "post_meta"
                  /\ sync_result' = sync_result
             ELSE /\ meta_writes' = meta_writes
                  /\ ReturnErr("Meta::write")
    /\ UNCHANGED <<sync_seqn, rollback_sync, entry_sync_seqn,
                   sync_calls, syncCallVars>>

\* The new Meta, with the local sync_seqn, and Meta::write(...)?
MetaWrite ==
    /\ sync_pc = "meta_write"
    /\ \E outcome \in Outcomes :
          /\ Performed("Meta::write", outcome)
          /\ IF outcome = "Ok"
             THEN /\ meta_writes' = Append(meta_writes, sync_seqn)
                  /\ sync_pc' = "increment"
                  /\ sync_result' = sync_result
             ELSE /\ meta_writes' = meta_writes
                  /\ ReturnErr("Meta::write")
    /\ UNCHANGED <<self_sync_seqn, sync_seqn, rollback_sync, entry_sync_seqn,
                   sync_calls, syncCallVars>>

\* self.sync_seqn += 1
Increment ==
    /\ sync_pc = "increment"
    /\ IF self_sync_seqn = U32_MAX /\ overflow_checks
       THEN /\ sync_pc' = "panicked"
            /\ sync_result' = <<"Panic", "attempt to add with overflow">>
            /\ UNCHANGED <<self_sync_seqn, performed>>
       ELSE /\ self_sync_seqn' = WrappingAddOne(self_sync_seqn)
            /\ Performed("self.sync_seqn += 1", "Ok")
            /\ sync_pc' = "post_meta"
            /\ sync_result' = sync_result
    /\ UNCHANGED <<sync_seqn, rollback_sync, entry_sync_seqn, meta_writes,
                   sync_calls, syncCallVars>>

\* The panic of PanicOnSyncMode::PostMeta, then rollback.post_meta().
PostMeta ==
    /\ sync_pc = "post_meta"
    /\ IF panic_on_sync = Some("PostMeta")
       THEN /\ sync_pc' = "panicked"
            /\ sync_result' = <<"Panic", "panic_on_sync is true (post-meta)">>
            /\ performed' = performed
       ELSE /\ sync_pc' = "bitbox_post_meta"
            /\ sync_result' = sync_result
            /\ IF IsSome(rollback_sync)
               THEN Performed("rollback.post_meta", "Ok")
               ELSE performed' = performed
    /\ UNCHANGED <<self_sync_seqn, sync_seqn, rollback_sync, entry_sync_seqn,
                   meta_writes, sync_calls, syncCallVars>>

\* bitbox_sync.post_meta(...)?
BitboxPostMeta ==
    /\ sync_pc = "bitbox_post_meta"
    /\ \E outcome \in Outcomes :
          /\ Performed("bitbox.post_meta", outcome)
          /\ IF outcome = "Ok"
             THEN sync_pc' = "beatree_post_meta" /\ sync_result' = sync_result
             ELSE ReturnErr("bitbox.post_meta")
    /\ UNCHANGED <<self_sync_seqn, sync_seqn, rollback_sync, entry_sync_seqn,
                   meta_writes, sync_calls, syncCallVars>>

\* beatree_sync.post_meta()
BeatreePostMeta ==
    /\ sync_pc = "beatree_post_meta"
    /\ Performed("beatree.post_meta", "Ok")
    /\ sync_pc' = "rollback_wait_post_meta"
    /\ UNCHANGED <<self_sync_seqn, sync_seqn, rollback_sync, entry_sync_seqn,
                   meta_writes, sync_calls, sync_result, syncCallVars>>

\* rollback.wait_post_meta()? where there is a rollback, then Ok(()).
RollbackWaitPostMeta ==
    /\ sync_pc = "rollback_wait_post_meta"
    /\ IF IsSome(rollback_sync)
       THEN \E outcome \in Outcomes :
               /\ Performed("rollback.wait_post_meta", outcome)
               /\ IF outcome = "Ok"
                  THEN sync_result' = Ok(<<>>) /\ sync_pc' = "returned"
                  ELSE ReturnErr("rollback.wait_post_meta")
       ELSE /\ performed' = performed
            /\ sync_result' = Ok(<<>>)
            /\ sync_pc' = "returned"
    /\ UNCHANGED <<self_sync_seqn, sync_seqn, rollback_sync, entry_sync_seqn,
                   meta_writes, sync_calls, syncCallVars>>

SyncNext ==
    \/ SyncBegin \/ BitboxWaitPreMeta \/ BeatreeWaitPreMeta \/ PostWal
    \/ MetaWrite \/ Increment \/ PostMeta \/ BitboxPostMeta \/ BeatreePostMeta
    \/ RollbackWaitPostMeta

SyncSpec == SyncInit /\ [][SyncNext]_vars

(***************************************************************************)
(* Claims about the single path verifier (checked under PathSpec).         *)
(***************************************************************************)
QueryKey == IF query[1] = "confirm_value" THEN query[2].key_path ELSE query[2]

\* C7: PathProof::verify returns TooManySiblings if and only if the number
\* of siblings exceeds min(|key_path|, 256) (256 = MAX_DEPTH here); then no
\* oracle call was made and no VerifiedPathProof is produced.
C7_TooManySiblings ==
    verified # NotCalled =>
        LET over == \/ Len(proof.siblings) > Len(key_path)
                    \/ Len(proof.siblings) > MAX_DEPTH
        IN /\ (verified = Err("TooManySiblings")) <=> over
           /\ over => hash_calls = 0 /\ ~IsOk(verified)

\* C7 witness: a proof rejected only because of the depth cap (the key path
\* is long enough).
C7_Witness ==
    /\ verified = Err("TooManySiblings")
    /\ Len(proof.siblings) <= Len(key_path)
    /\ hash_calls = 0

\* C8: with an admissible sibling count, verify succeeds exactly when the
\* terminal node hashed upward along relevant = key_path[0..|siblings|]
\* (sibling left where the bit is 1) gives the expected root; the verified
\* path then carries relevant, the siblings, the root and the leaf or None;
\* otherwise the result is RootMismatch.
C8_VerifyResult ==
    (verified # NotCalled /\ Len(proof.siblings) <= Min(Len(key_path), MAX_DEPTH)) =>
        LET relevant == Take(key_path, Len(proof.siblings))
            terminal_node == IF proof.terminal[1] = "Leaf"
                             THEN <<"L", proof.terminal[2].key_path,
                                         proof.terminal[2].value_hash>>
                             ELSE <<"T">>
            candidate == PathRoot(terminal_node, relevant, proof.siblings)
        IN IF candidate = root
           THEN verified = Ok([key_path |-> relevant,
                               terminal |-> IF proof.terminal[1] = "Leaf"
                                            THEN <<proof.terminal[2]>> ELSE <<>>,
                               siblings |-> proof.siblings,
                               root |-> root])
           ELSE verified = Err("RootMismatch")

\* C8 witness: a proof with two different siblings verified successfully
\* along a path with both bit values.
C8_Witness ==
    /\ IsOk(verified)
    /\ Len(proof.siblings) = 2
    /\ proof.siblings[1] # proof.siblings[2]
    /\ key_path[1] # key_path[2]
    /\ proof.terminal[1] = "Leaf"

\* C9: confirm_value (on a leaf with the key) and confirm_nonexistence (on
\* the key) return KeyOutOfScope if and only if one of the first
\* |proven_prefix| bits of the key differs from the proven prefix; with an
\* empty proven prefix every key is in scope.
C9_ScopeEnforcement ==
    (IsOk(verified) /\ answer # NotCalled) =>
        LET prefix == verified[2].key_path
        IN (answer = Err("KeyOutOfScope"))
               <=> (\E j \in 1..Len(prefix) : QueryKey[j] # prefix[j])

\* C9 witness: a key that agrees with the proven prefix except in its last
\* bit is refused.
C9_Witness ==
    /\ IsOk(verified)
    /\ answer = Err("KeyOutOfScope")
    /\ Len(verified[2].key_path) = 2
    /\ QueryKey[1] = verified[2].key_path[1]

\* C10: for an in-scope expected_leaf, confirm_value returns true if and
\* only if the terminal is a leaf with the key_path and the value_hash of
\* expected_leaf; false for a terminator, another key or another value_hash.
C10_ConfirmValue ==
    (IsOk(verified) /\ query[1] = "confirm_value" /\ IsOk(answer)) =>
        LET terminal == verified[2].terminal
            expected_leaf == query[2]
        IN answer[2] <=> /\ Len(terminal) = 1
                         /\ terminal[1].key_path = expected_leaf.key_path
                         /\ terminal[1].value_hash = expected_leaf.value_hash

\* C10 witness: the terminal leaf has the expected key and another value
\* hash, and confirm_value answered false.
C10_Witness ==
    /\ IsOk(verified)
    /\ query[1] = "confirm_value"
    /\ answer = Ok(FALSE)
    /\ IsSome(verified[2].terminal)
    /\ verified[2].terminal[1].key_path = query[2].key_path

\* C11: for an in-scope key, confirm_nonexistence returns true if and only
\* if the terminal is a terminator or a leaf whose key_path differs from the
\* key; false when the terminal is the leaf of that very key.
C11_ConfirmNonexistence ==
    (IsOk(verified) /\ query[1] = "confirm_nonexistence" /\ IsOk(answer)) =>
        LET terminal == verified[2].terminal
            asked == query[2]
        IN /\ answer[2] \in BOOLEAN
           /\ answer[2] <=> \/ Len(terminal) = 0
                            \/ Len(terminal) = 1 /\ terminal[1].key_path # asked

\* C11 witness: the proven path ends in a terminator one level down and an
\* in-scope key was confirmed absent.
C11_Witness ==
    /\ IsOk(verified)
    /\ query[1] = "confirm_nonexistence"
    /\ answer = Ok(TRUE)
    /\ verified[2].terminal = None
    /\ Len(verified[2].key_path) > 0

\* The leaves found in a node, and whether the node is the root of a trie
\* in canonical form (every leaf sits on the path of its own key).
RECURSIVE LeavesOf(_)
LeavesOf(node) ==
    IF node[1] = "L" THEN {[key_path |-> node[2], value_hash |-> node[3]]}
    ELSE IF node[1] = "I" THEN LeavesOf(node[2]) \cup LeavesOf(node[3])
         ELSE {}

IsTrieRoot(node) == TrieRoot(LeavesOf(node)) = node

\* C12 as stated (I2): in every VerifiedPathProof that verify produces with
\* a leaf terminal, the proven prefix is a prefix of that leaf's key_path.
C12_AsStated ==
    (IsOk(verified) /\ Len(verified[2].terminal) = 1) =>
        StartsWith(verified[2].terminal[1].key_path, verified[2].key_path)

\* C12: in every VerifiedPathProof that verify produces against the root of
\* a trie in canonical form, with a leaf terminal, the proven prefix is a
\* prefix of that leaf's key_path.
C12_ProvenPrefix ==
    (IsOk(verified) /\ IsTrieRoot(root) /\ Len(verified[2].terminal) = 1) =>
        StartsWith(verified[2].terminal[1].key_path, verified[2].key_path)

\* C12 witness: a leaf proven two levels down against the root of a trie of
\* two leaves.
C12_Witness ==
    /\ IsOk(verified)
    /\ IsTrieRoot(root)
    /\ Len(verified[2].terminal) = 1
    /\ Len(verified[2].key_path) = 2

(***************************************************************************)
(* Claims about verify_update (checked under Spec).                        *)
(***************************************************************************)
\* C1: batch round trip. For a start trie with root prev_root and a set of
\* operations partitioned by lookup path into ascending PathUpdates verified
\* against prev_root, verify_update returns the root of the trie obtained
\* by applying the operations to the start trie directly.
C1_BatchRoundTrip ==
    (pc = "done" /\ tampered = {}) =>
        result = Ok(TrieRoot(Apply(start_trie, operations)))

\* C1 witness: a batch of three paths that deletes a leaf, inserts a leaf
\* and rewrites a leaf was verified.
C1_Witness ==
    /\ pc = "done"
    /\ tampered = {}
    /\ IsOk(result)
    /\ Len(paths) = 3
    /\ \E k \in DOMAIN operations :
          operations[k] = None /\ LeafData(k, 1) \in start_trie
    /\ \E k \in DOMAIN operations :
          operations[k] # None /\ LeafData(k, 1) \notin start_trie
    /\ \E k \in DOMAIN operations :
          operations[k] # None /\ LeafData(k, 1) \in start_trie

CommonPrefixLen(a, b) ==
    Cardinality({n \in 1..Len(a) : n <= Len(b) /\ \A m \in 1..n : a[m] = b[m]})

\* The sibling an iteration of the walk combines the current node with: the
\* node on top of the frontier if it sits at the current layer, else the
\* sibling of the proof at that layer.
TopOfFrontier == pending_siblings[Len(pending_siblings)]

SiblingInUse ==
    IF Len(pending_siblings) > 0 /\ TopOfFrontier[2] = cur_layer
    THEN TopOfFrontier[1]
    ELSE paths[i].inner.siblings[cur_layer]

\* The compaction rules, on the shape of the nodes.
Compacted(cur, sibling, bit) ==
    IF cur = <<"T">> /\ sibling = <<"T">> THEN <<"T">>
    ELSE IF cur[1] = "L" /\ sibling = <<"T">> THEN cur
    ELSE IF cur = <<"T">> /\ sibling[1] = "L" THEN sibling
    ELSE IF bit = 1 THEN <<"I", sibling, cur>> ELSE <<"I", cur, sibling>>

WalkIteration == pc = "walk" /\ walk_left > 0 /\ walk_left' = walk_left - 1

\* C13: every iteration of the stitching walk combines the current node
\* with its sibling by the compaction rules: two terminators give the
\* terminator, a leaf and a terminator (either side) give the leaf unchanged,
\* every other pair gives hash_internal with the sibling on the left exactly
\* when the bit is 1. And a batch that deletes both leaves of a trie of two
\* leaves, one path per leaf, returns the terminator as the new root.
C13_Compaction ==
    /\ [][WalkIteration =>
              cur_node' = Compacted(cur_node, SiblingInUse,
                                    paths[i].inner.key_path[cur_layer])]_vars
    /\ []((/\ pc = "done"
           /\ tampered = {}
           /\ Cardinality(start_trie) = 2
           /\ Len(paths) = 2
           /\ DOMAIN operations = {l.key_path : l \in start_trie}
           /\ \A k \in DOMAIN operations : operations[k] = <<>>)
              => result = <<"Ok", <<"T">>>>)

\* C13 witness: both leaves of a trie of two leaves were deleted by a batch
\* of two paths, and the walk of the second path has combined a terminator
\* with the terminator the first path left on the frontier.
C13_Witness ==
    /\ pc = "done"
    /\ Cardinality(start_trie) = 2
    /\ Len(paths) = 2
    /\ DOMAIN operations = {l.key_path : l \in start_trie}
    /\ \A k \in DOMAIN operations : operations[k] = <<>>
    /\ \A j \in 1..2 : IsSome(paths[j].inner.terminal)
    /\ Len(paths[2].inner.key_path) = 2
    /\ IsOk(result)

\* The trie the batch leads to.
AfterTrie == Apply(start_trie, operations)

\* Entry k of the frontier is the root of the sub-trie, in the trie after
\* the batch, at the first `layer` bits of a proven path that goes left
\* there, and its right neighbour is still to be finished: the path being
\* stitched or a later one lies under it.
LeftSubTrie(k) ==
    LET node == pending_siblings[k][1]
        layer == pending_siblings[k][2]
    IN \E j \in 1..Len(paths) :
          LET at == Take(paths[j].inner.key_path, layer)
          IN /\ layer <= Len(paths[j].inner.key_path)
             /\ node = SubTrie(AfterTrie, at)
             /\ layer > 0 =>
                   /\ at[layer] = 0
                   /\ \E m \in i..Len(paths) :
                         StartsWith(paths[m].inner.key_path,
                                    Append(Take(at, layer - 1), 1))

\* C15: at every point of the stitching of an accepted batch, the layers
\* of the entries of pending_siblings are strictly ascending from bottom to
\* top, and each entry is the root of a completed left sub-trie whose right
\* neighbour has not been processed yet.
C15_FrontierStack ==
    /\ \A k \in 1..(Len(pending_siblings) - 1) :
          pending_siblings[k][2] < pending_siblings[k + 1][2]
    /\ \A k \in 1..Len(pending_siblings) : LeftSubTrie(k)

\* C15 witness: two entries are on the frontier while a third path is
\* being stitched.
C15_Witness ==
    /\ pc = "walk"
    /\ i = 3
    /\ Len(pending_siblings) = 2

\* C16: a path that is not the last pushes its node at layer n + 1 (n the
\* bits its proven prefix shares with the next one); an entry that leaves
\* the frontier during a walk is the sibling that iteration uses in place of
\* the proof's sibling; and after the last path the frontier holds exactly
\* one node, at layer 0, which is the root verify_update returns.
C16_FrontierConsumed ==
    /\ [][(pc = "walk" /\ pc' = "path") =>
              pending_siblings' =
                  Append(pending_siblings,
                         <<cur_node,
                           1 + CommonPrefixLen(paths[i + 1].inner.key_path,
                                               paths[i].inner.key_path)>>)]_vars
    /\ [][(WalkIteration /\ pending_siblings' # pending_siblings) =>
              /\ TopOfFrontier[2] = cur_layer
              /\ pending_siblings' = SubSeq(pending_siblings, 1,
                                            Len(pending_siblings) - 1)
              /\ cur_node' = Compacted(cur_node, TopOfFrontier[1],
                                       paths[i].inner.key_path[cur_layer])]_vars
    /\ [][(WalkIteration /\ pending_siblings # <<>>
              /\ TopOfFrontier[2] = cur_layer) =>
              pending_siblings' # pending_siblings]_vars
    /\ [](pc = "return" =>
              /\ Len(pending_siblings) = 1
              /\ pending_siblings[1][2] = 0)
    /\ [][(pc = "return" /\ pc' = "done") =>
              /\ result' = <<"Ok", pending_siblings[1][1]>>
              /\ pending_siblings' = <<>>]_vars

\* C16 witness: a batch of three paths has returned a root after two
\* entries were taken off the frontier.
C16_Witness ==
    /\ pc = "done"
    /\ Len(paths) = 3
    /\ IsOk(result)
    /\ pending_siblings = <<>>
    /\ result[2] = cur_node

(***************************************************************************)
(* Claims about the checks of verify_update (checked under TamperSpec).    *)
(* The predicates below state what is wrong with a batch, independently of *)
(* the loop that looks for it.                                             *)
(***************************************************************************)
\* a is strictly before b in MSB-first lexicographic order.
LexBefore(a, b) ==
    \E n \in 0..Len(a) :
        /\ n <= Len(b)
        /\ \A m \in 1..n : a[m] = b[m]
        /\ \/ n = Len(a) /\ n < Len(b)
           \/ n < Len(a) /\ n < Len(b) /\ a[n + 1] = 0 /\ b[n + 1] = 1

Extends(key, prefix) ==
    Len(prefix) <= Len(key) /\ \A m \in 1..Len(prefix) : key[m] = prefix[m]

Called == pc = "done" /\ Len(paths) > 0

RootDiffers(j) == paths[j].inner.root # prev_root

NotAfterPrevious(j) ==
    j > 1 /\ ~LexBefore(paths[j - 1].inner.key_path, paths[j].inner.key_path)

NoOps(j) == Len(paths[j].ops) = 0

OpNotAfterPrevious(j, m) ==
    m > 1 /\ ~LexBefore(paths[j].ops[m - 1][1], paths[j].ops[m][1])

OpOutside(j, m) == ~Extends(paths[j].ops[m][1], paths[j].inner.key_path)

PathFine(j) ==
    /\ ~RootDiffers(j) /\ ~NotAfterPrevious(j) /\ ~NoOps(j)
    /\ \A m \in 1..Len(paths[j].ops) : ~OpNotAfterPrevious(j, m) /\ ~OpOutside(j, m)

EarlierFine(j) == \A h \in 1..(j - 1) : PathFine(h)

\* C3 as stated: for a non-empty batch, if any path's root differs from
\* prev_root, verify_update returns RootMismatch.
C3_AsStated ==
    Called =>
        /\ (\E j \in DOMAIN paths : RootDiffers(j)) => result = Err("RootMismatch")
        /\ IsOk(result) => \A j \in DOMAIN paths : paths[j].inner.root = prev_root

\* C3 amended: for a non-empty batch, if any path's root differs from
\* prev_root, verify_update returns an error and never a root; the error is
\* RootMismatch when every path before such a path passes all its checks
\* (all paths in an accepted batch carry prev_root as their root).
C3_RootMismatch ==
    Called =>
        /\ (\E j \in DOMAIN paths : RootDiffers(j)) => ~IsOk(result)
        /\ \A j \in DOMAIN paths :
              (RootDiffers(j) /\ EarlierFine(j)) => result = Err("RootMismatch")
        /\ IsOk(result) => \A j \in DOMAIN paths : paths[j].inner.root = prev_root

\* C3 witness: the second path of a batch carries another root, the first
\* path is in order, and the result is RootMismatch.
C3_Witness ==
    /\ Called
    /\ Len(paths) > 1
    /\ RootDiffers(2) /\ PathFine(1)
    /\ result = Err("RootMismatch")

\* C4 as stated: if the proven prefixes are not strictly ascending,
\* verify_update returns PathsOutOfOrder.
C4_AsStated ==
    (Called /\ \E a, b \in DOMAIN paths :
                   a < b /\ ~LexBefore(paths[a].inner.key_path, paths[b].inner.key_path))
        => result = Err("PathsOutOfOrder")

\* C4 amended: if the proven prefixes are not strictly ascending (two equal
\* prefixes and swapped paths included), verify_update returns an error and
\* never a root; the error is PathsOutOfOrder when the first path that is
\* not after its predecessor carries prev_root and every path before it
\* passes all its checks.
C4_PathsOutOfOrder ==
    Called =>
        /\ (\E a, b \in DOMAIN paths :
               a < b /\ ~LexBefore(paths[a].inner.key_path, paths[b].inner.key_path))
             => ~IsOk(result)
        /\ \A j \in DOMAIN paths :
              (NotAfterPrevious(j) /\ ~RootDiffers(j) /\ EarlierFine(j))
                  => result = Err("PathsOutOfOrder")

\* C4 witness: two paths with the same proven prefix are refused.
C4_Witness ==
    /\ Called
    /\ \E j \in DOMAIN paths :
          /\ j > 1
          /\ paths[j].inner.key_path = paths[j - 1].inner.key_path
          /\ EarlierFine(j)
    /\ result = Err("PathsOutOfOrder")

\* C5 as stated: a root is returned only if every op key extends its proven
\* prefix and the ops are strictly ascending; a duplicate or descending op
\* key yields OpsOutOfOrder and an op key outside the prefix OpOutOfScope.
C5_AsStated ==
    Called =>
        /\ IsOk(result) =>
              \A j \in DOMAIN paths : \A m \in DOMAIN paths[j].ops :
                  ~OpNotAfterPrevious(j, m) /\ ~OpOutside(j, m)
        /\ \A j \in DOMAIN paths : \A m \in DOMAIN paths[j].ops :
              /\ OpNotAfterPrevious(j, m) => result = Err("OpsOutOfOrder")
              /\ OpOutside(j, m) => result = Err("OpOutOfScope")

\* C5 amended: a root is returned only if every op key extends its proven
\* prefix and the ops are strictly ascending; a duplicate or descending op
\* key yields OpsOutOfOrder, and an op key outside the prefix OpOutOfScope,
\* when it is the first failing check: every earlier path passes all its
\* checks, the path passes the root, order and emptiness checks, every
\* earlier op of the path is in order and in scope, and, for OpOutOfScope,
\* the op is after its predecessor.
C5_OpsChecks ==
    Called =>
        /\ IsOk(result) =>
              \A j \in DOMAIN paths : \A m \in DOMAIN paths[j].ops :
                  ~OpNotAfterPrevious(j, m) /\ ~OpOutside(j, m)
        /\ \A j \in DOMAIN paths : \A m \in DOMAIN paths[j].ops :
              (/\ EarlierFine(j)
               /\ ~RootDiffers(j) /\ ~NotAfterPrevious(j)
               /\ \A h \in 1..(m - 1) : ~OpNotAfterPrevious(j, h) /\ ~OpOutside(j, h))
              => /\ OpNotAfterPrevious(j, m) => result = Err("OpsOutOfOrder")
                 /\ (~OpNotAfterPrevious(j, m) /\ OpOutside(j, m))
                        => result = Err("OpOutOfScope")

\* C5 witness: the second op of a path is after the first and outside the
\* proven prefix, and the result is OpOutOfScope.
C5_Witness ==
    /\ Called
    /\ result = Err("OpOutOfScope")
    /\ \E j \in DOMAIN paths :
          /\ Len(paths[j].ops) > 1
          /\ OpOutside(j, 2) /\ ~OpOutside(j, 1) /\ ~OpNotAfterPrevious(j, 2)

\* C6 as stated: if any path of a non-empty batch has no ops, verify_update
\* returns PathWithoutOps and never a root.
C6_AsStated ==
    (Called /\ \E j \in DOMAIN paths : NoOps(j)) =>
        result = Err("PathWithoutOps") /\ ~IsOk(result)

\* C6 amended: if any path of a non-empty batch has no ops, verify_update
\* never returns a root; it returns PathWithoutOps when that path carries
\* prev_root and is after its predecessor and every earlier path passes all
\* its checks.
C6_PathWithoutOps ==
    Called =>
        /\ (\E j \in DOMAIN paths : NoOps(j)) => ~IsOk(result)
        /\ \A j \in DOMAIN paths :
              (NoOps(j) /\ ~RootDiffers(j) /\ ~NotAfterPrevious(j) /\ EarlierFine(j))
                  => result = Err("PathWithoutOps")

\* C6 witness: the last of several paths has no ops and the result is
\* PathWithoutOps.
C6_Witness ==
    /\ Called
    /\ Len(paths) > 1
    /\ NoOps(Len(paths))
    /\ result = Err("PathWithoutOps")

\* The batch has passed the checks of the first loop: the stitching loop is
\* running or has run.
Accepted ==
    \/ pc \in {"path", "walk", "return"}
    \/ pc = "done" /\ Len(paths) > 0 /\ result[1] # "Err"

\* C14: for every batch that passes the checks of verify_update and every
\* path but the last, the number n of leading bits its proven prefix shares
\* with the next proven prefix is below its own length skip, so that
\* up_layers = skip - (n + 1) is at least 0 and the subtraction never
\* underflows (no panic, no wrapped value).
C14_NoUnderflow ==
    Accepted =>
        /\ \A j \in 1..(Len(paths) - 1) :
              LET skip == Len(paths[j].inner.key_path)
                  n == CommonPrefixLen(paths[j + 1].inner.key_path,
                                       paths[j].inner.key_path)
              IN /\ n < skip
                 /\ shared_bits(paths[j + 1].inner.key_path,
                                paths[j].inner.key_path) = n
                 /\ UpLayers(paths, j) = skip - (n + 1)
                 /\ UpLayers(paths, j) >= 0
        /\ result[1] # "Panic"
        /\ pc = "walk" => end_layer <= cur_layer

\* C14 witness: a path that is not the last is being stitched with
\* up_layers = 0 (n = skip - 1, the largest n there is).
C14_Witness ==
    /\ pc = "walk"
    /\ i < Len(paths)
    /\ CommonPrefixLen(paths[i + 1].inner.key_path, paths[i].inner.key_path)
           = Len(paths[i].inner.key_path) - 1
    /\ end_layer = cur_layer

(***************************************************************************)
(* Claims about Sync::sync (checked under SyncSpec).                       *)
(***************************************************************************)
\* Positions in the running call at which the step was made (with the
\* outcome).
Made(step) == {k \in DOMAIN performed : performed[k][1] = step}

MadeWith(step, outcome) == {k \in DOMAIN performed : performed[k] = <<step, outcome>>}

PostMetaSteps ==
    {"rollback.post_meta", "bitbox.post_meta", "beatree.post_meta",
     "rollback.wait_post_meta"}

PreMetaSteps == {"bitbox.wait_pre_meta", "beatree.wait_pre_meta", "Meta::write"}

\* b is a + 1 in u32 arithmetic.
NextInU32(a, b) ==
    \/ a[1] = b[1] /\ a[2] + 1 = b[2]
    \/ a[2] = 65535 /\ b[2] = 0 /\ a[1] + 1 = b[1]
    \/ a = <<65535, 65535>> /\ b = <<0, 0>>

\* C17: in a call of Sync::sync, Meta::write is reached only after both
\* wait_pre_meta calls have succeeded, and the Meta it writes carries the
\* sync_seqn the Sync had on entry plus 1; self.sync_seqn is incremented, by
\* exactly 1, only after Meta::write has succeeded; the post_meta steps run
\* only after that increment; and if a wait_pre_meta call or Meta::write
\* fails, sync returns that error with self.sync_seqn as on entry and no
\* post_meta step made.
C17_SyncOrder ==
    /\ \A k \in Made("Meta::write") :
          /\ \E a \in MadeWith("bitbox.wait_pre_meta", "Ok") : a < k
          /\ \E b \in MadeWith("beatree.wait_pre_meta", "Ok") : b < k
    /\ MadeWith("Meta::write", "Ok") # {} =>
          /\ meta_writes # <<>>
          /\ NextInU32(entry_sync_seqn, meta_writes[Len(meta_writes)])
    /\ Len(meta_writes) <= sync_calls
    /\ self_sync_seqn # entry_sync_seqn =>
          /\ NextInU32(entry_sync_seqn, self_sync_seqn)
          /\ Cardinality(Made("self.sync_seqn += 1")) = 1
          /\ \E w \in MadeWith("Meta::write", "Ok") :
                \A c \in Made("self.sync_seqn += 1") : w < c
    /\ self_sync_seqn = entry_sync_seqn => Made("self.sync_seqn += 1") = {}
    /\ \A k \in DOMAIN performed :
          performed[k][1] \in PostMetaSteps =>
              \E c \in Made("self.sync_seqn += 1") : c < k
    /\ \A step \in PreMetaSteps :
          MadeWith(step, "Err") # {} =>
              /\ sync_pc = "returned"
              /\ sync_result = <<"Err", step>>
              /\ self_sync_seqn = entry_sync_seqn
              /\ \A k \in DOMAIN performed : performed[k][1] \notin PostMetaSteps

\* C17 witness: after a first call that wrote its Meta and incremented
\* sync_seqn (with a carry out of the low half), Meta::write fails in the
\* second call.
C17_Witness ==
    /\ sync_calls = 2
    /\ Len(meta_writes) = 1
    /\ sync_result = Err("Meta::write")
    /\ self_sync_seqn = entry_sync_seqn
    /\ NextInU32(<<0, 65535>>, meta_writes[1])

====
